---- MODULE Spec2Model ----
(***************************************************************************)
(* The three lab-report scripts of the repository                         *)
(*   v5_gas_thermometer_heating.py   ("heating")                          *)
(*   v5_specific_heat.py             ("specific_heat")                    *)
(*   v7_cooling.py                   ("cooling")                          *)
(* as one state machine: a script run walks through its module body      *)
(* (create the output directory, load, convert, fit, propagate, report,  *)
(* plot) over a small file system.                                        *)
(*                                                                         *)
(* Numbers.  Python floats are modelled in two ways.                      *)
(*  - The weighted fit and everything derived from it in closed form is   *)
(*    exact rational arithmetic: a value is <<n, d>> with d > 0 in lowest *)
(*    terms; <<1, 0>> is inf and <<0, 0>> a value the data do not         *)
(*    determine (nan, or the arbitrary point a degenerate fit stops at).  *)
(*  - sqrt and log have no rational value: the conversions that use them  *)
(*    are fixed-point integers whose unit is stated at each definition.   *)
(***************************************************************************)
EXTENDS Integers, Sequences, FiniteSets, TLC

VARIABLES
    script,      \* which of the three scripts runs
    fileState,   \* the CSV at FILENAME: "missing", "empty", "no_column", "bad_cell", "ok"
    rows,        \* the rows of the CSV (pairs of the two named columns) when "ok"
    config,      \* the x-uncertainty constant of the script (SIGMA_T, SIGMA_U, 0.3 K)
    dirExists,   \* OUTPUT_DIR exists
    reportFile,  \* OUTPUT_DIR/TXT_FILE: <<>> when absent, <<text>> when written
    plotFile,    \* OUTPUT_DIR/PLOT_FILE: <<>> when absent, <<figure>> when saved
    pc,          \* position of the run in the module body
    df,          \* the data frame returned by load_lab_data: <<>> is None
    arrays,      \* the numpy arrays of the run: x, y, xerr, yerr
    fits,        \* the curve_fit calls made so far, in order, with their results
    result,      \* slope, intercept, derived quantity, deviation: <<>> before
    out,         \* what the run printed, in order
    fault,       \* the exception that ended the run unhandled, "none" otherwise
    stages,      \* the pipeline stages the run has entered, in order
    wrote,       \* the files this run has written
    runNo,       \* 1 for the first run, 2 for the run after the constant was edited
    prevReport   \* the report file as the previous run left it

vars == <<script, fileState, rows, config, dirExists, reportFile, plotFile, pc, df,
          arrays, fits, result, out, fault, stages, wrote, runNo, prevReport>>

(***************************************************************************)
(* Bounds of the model.                                                    *)
(***************************************************************************)
MaxRows == 3       \* rows of a CSV in a script run
MaxPoints == 3     \* points of a dataset handed to the fit alone
MaxRuns == 2       \* runs of a script on the same dataset

(***************************************************************************)
(* Exact rational arithmetic.                                              *)
(***************************************************************************)
Abs(a) == IF a < 0 THEN -a ELSE a

RECURSIVE GCD(_, _)
GCD(a, b) == IF b = 0 THEN a ELSE GCD(b, a % b)

LCM(a, b) == (a \div GCD(a, b)) * b

Inf == <<1, 0>>
Unidentified == <<0, 0>>

Rat(n, d) ==
    IF d = 0 THEN (IF n = 0 THEN Unidentified ELSE Inf)
    ELSE LET g == GCD(Abs(n), Abs(d))
             s == IF d < 0 THEN -1 ELSE 1
         IN  <<s * (n \div g), s * (d \div g)>>

IsFinite(a) == a[2] # 0
RNeg(a) == <<-a[1], a[2]>>
RAdd(a, b) == LET l == LCM(a[2], b[2])
              IN  Rat(a[1] * (l \div a[2]) + b[1] * (l \div b[2]), l)
RMul(a, b) == LET p == Rat(a[1], b[2])
                  q == Rat(b[1], a[2])
              IN  Rat(p[1] * q[1], p[2] * q[2])
RDiv(a, b) == RMul(a, Rat(b[2], b[1]))
RLess(a, b) == a[1] * b[2] < b[1] * a[2]
IntR(k) == <<k, 1>>

RECURSIVE SumSeq(_)
SumSeq(s) == IF s = <<>> THEN 0 ELSE Head(s) + SumSeq(Tail(s))

RECURSIVE LCMSeq(_)
LCMSeq(s) == IF s = <<>> THEN 1 ELSE LCM(Head(s), LCMSeq(Tail(s)))

(***************************************************************************)
(* Fixed-point helpers: floor square root, and floor(a * b / c) for        *)
(* a, b >= 0 and c > 0 without forming a * b when a is large.              *)
(***************************************************************************)
RECURSIVE SqrtSearch(_, _, _)
SqrtSearch(n, lo, hi) ==
    IF lo = hi THEN lo
    ELSE LET mid == (lo + hi + 1) \div 2
         IN  IF mid * mid <= n THEN SqrtSearch(n, mid, hi)
             ELSE SqrtSearch(n, lo, mid - 1)

ISqrt(n) == SqrtSearch(n, 0, 46340)

MulDiv(a, b, c) == (a \div c) * b + ((a % c) * b) \div c

\* floor(r * 10^k) of a rational r by long division, digit by digit
RECURSIVE Pow10(_)
Pow10(k) == IF k = 0 THEN 1 ELSE 10 * Pow10(k - 1)

RECURSIVE Digits(_, _, _)
Digits(rem, d, k) ==
    IF k = 0 THEN 0
    ELSE ((10 * rem) \div d) * Pow10(k - 1) + Digits((10 * rem) % d, d, k - 1)

Fix(r, k) == (r[1] \div r[2]) * Pow10(k) + Digits(r[1] % r[2], r[2], k)

RAbs(r) == <<Abs(r[1]), r[2]>>

(***************************************************************************)
(* The fit.  linear_model is the model function of all three scripts;      *)
(* curve_fit is scipy's curve_fit(linear_model, xdata, ydata, sigma=sigma, *)
(* absolute_sigma=True) as the scripts call it: the minimiser of           *)
(* sum(((y - linear_model(x, m, b)) / sigma)^2), which for this model is   *)
(* the solution of the 2x2 normal equations, and pcov the inverse of the   *)
(* normal matrix, NOT rescaled by the residuals (absolute_sigma=True).     *)
(* Weights 1/sigma^2 are brought to the common denominator K.              *)
(*   status "ValueError": ydata is empty                                   *)
(*   status "TypeError":  fewer data points than parameters                *)
(*   status "OptimizeWarning": the normal matrix is singular; curve_fit    *)
(*       returns, warns that the covariance could not be estimated, fills  *)
(*       pcov with inf, and popt is wherever the iteration stopped         *)
(*   status "ok": popt = <<m, b>>, pcov = <<var m, cov(m,b), var b>>       *)
(***************************************************************************)
NParams == 2

linear_model(x, m, b) == m * x + b

FitRaised(e) ==
    [status |-> e, popt |-> <<Unidentified, Unidentified>>,
     pcov |-> <<Unidentified, Unidentified, Unidentified>>]

\* a fit that weights the residuals by 1 / sigma instead of 1 / sigma^2
curve_fit_linear_weights(xdata, ydata, sigma) ==
    LET n == Len(ydata)
        K == LCMSeq(sigma)
        w == [i \in 1..n |-> K \div sigma[i]]
        S == SumSeq(w)
        Sx == SumSeq([i \in 1..n |-> w[i] * xdata[i]])
        Sy == SumSeq([i \in 1..n |-> w[i] * ydata[i]])
        Sxx == SumSeq([i \in 1..n |-> w[i] * xdata[i] * xdata[i]])
        Sxy == SumSeq([i \in 1..n |-> w[i] * xdata[i] * ydata[i]])
        Det == S * Sxx - Sx * Sx
    IN  IF n = 0 THEN FitRaised("ValueError")
        ELSE IF n < NParams THEN FitRaised("TypeError")
        ELSE IF Det = 0
        THEN [status |-> "OptimizeWarning", popt |-> <<Unidentified, Unidentified>>,
              pcov |-> <<Inf, Inf, Inf>>]
        ELSE [status |-> "ok",
              popt |-> <<Rat(S * Sxy - Sx * Sy, Det), Rat(Sxx * Sy - Sx * Sxy, Det)>>,
              pcov |-> <<RMul(IntR(K), Rat(S, Det)), RMul(IntR(K), Rat(-Sx, Det)),
                         RMul(IntR(K), Rat(Sxx, Det))>>]

\* the fit with absolute_sigma=False: pcov rescaled by the reduced chi-square,
\* which is 0 for residuals that all vanish and undefined for n = NParams
curve_fit_relative_sigma(xdata, ydata, sigma) ==
    LET n == Len(ydata)
        s2 == [i \in 1..n |-> sigma[i] * sigma[i]]
        K == LCMSeq(s2)
        w == [i \in 1..n |-> K \div s2[i]]
        S == SumSeq(w)
        Sx == SumSeq([i \in 1..n |-> w[i] * xdata[i]])
        Sy == SumSeq([i \in 1..n |-> w[i] * ydata[i]])
        Sxx == SumSeq([i \in 1..n |-> w[i] * xdata[i] * xdata[i]])
        Sxy == SumSeq([i \in 1..n |-> w[i] * xdata[i] * ydata[i]])
        Det == S * Sxx - Sx * Sx
        mn == S * Sxy - Sx * Sy
        bn == Sxx * Sy - Sx * Sxy
        exact == \A i \in 1..n : Det * ydata[i] = linear_model(xdata[i], mn, bn)
        scale == IF exact THEN IntR(0) ELSE IntR(1)
    IN  IF n = 0 THEN FitRaised("ValueError")
        ELSE IF n < NParams THEN FitRaised("TypeError")
        ELSE IF Det = 0 \/ n = NParams
        THEN [status |-> "OptimizeWarning",
              popt |-> IF Det = 0 THEN <<Unidentified, Unidentified>>
                       ELSE <<Rat(mn, Det), Rat(bn, Det)>>,
              pcov |-> <<Inf, Inf, Inf>>]
        ELSE [status |-> "ok",
              popt |-> <<Rat(mn, Det), Rat(bn, Det)>>,
              pcov |-> <<RMul(scale, RMul(IntR(K), Rat(S, Det))),
                         RMul(scale, RMul(IntR(K), Rat(-Sx, Det))),
                         RMul(scale, RMul(IntR(K), Rat(Sxx, Det)))>>]

curve_fit(xdata, ydata, sigma) ==
    LET n == Len(ydata)
        s2 == [i \in 1..n |-> sigma[i] * sigma[i]]
        K == LCMSeq(s2)
        w == [i \in 1..n |-> K \div s2[i]]
        S == SumSeq(w)
        Sx == SumSeq([i \in 1..n |-> w[i] * xdata[i]])
        Sy == SumSeq([i \in 1..n |-> w[i] * ydata[i]])
        Sxx == SumSeq([i \in 1..n |-> w[i] * xdata[i] * xdata[i]])
        Sxy == SumSeq([i \in 1..n |-> w[i] * xdata[i] * ydata[i]])
        Det == S * Sxx - Sx * Sx
    IN  IF n = 0 THEN FitRaised("ValueError")
        ELSE IF n < NParams THEN FitRaised("TypeError")
        ELSE IF Det = 0
        THEN [status |-> "OptimizeWarning", popt |-> <<Unidentified, Unidentified>>,
              pcov |-> <<Inf, Inf, Inf>>]
        ELSE [status |-> "ok",
              popt |-> <<Rat(S * Sxy - Sx * Sy, Det), Rat(Sxx * Sy - Sx * Sxy, Det)>>,
              pcov |-> <<RMul(IntR(K), Rat(S, Det)), RMul(IntR(K), Rat(-Sx, Det)),
                         RMul(IntR(K), Rat(Sxx, Det))>>]

(***************************************************************************)
(* Gas thermometer: T0 = -intercept / slope, the temperature at which the *)
(* fitted pressure is zero.  Dividing by a slope of exactly 0 raises       *)
(* ZeroDivisionError.  n is the nominal value.                             *)
(***************************************************************************)
\* T0 with the minus sign dropped
AbsoluteZero_no_sign(popt) ==
    IF popt[1] = IntR(0)
    THEN [status |-> "ZeroDivisionError", n |-> Unidentified]
    ELSE [status |-> "ok", n |-> RDiv(popt[2], popt[1])]

AbsoluteZero(popt) ==
    IF popt[1] = IntR(0)
    THEN [status |-> "ZeroDivisionError", n |-> Unidentified]
    ELSE [status |-> "ok", n |-> RDiv(RNeg(popt[2]), popt[1])]

(***************************************************************************)
(* The fit alone, as a pure function: Init draws a dataset (x, y, sigma_y) *)
(* and a factor k; the fit is applied to it with sigma_y and with          *)
(* k * sigma_y, and T0 is derived from the first result.                   *)
(***************************************************************************)
XValues == {0, 1, 2}
YValues == {0, 1, 2}
SigmaValues == {1, 2}
KValues == {2, 3}

\* the end-to-end scenario: x = [0, 10, 20, 30], y = [1000, 1040, 1080, 1120],
\* sigma_y = 5 for every point
Scenario ==
    [x |-> <<0, 10, 20, 30>>, y |-> <<1000, 1040, 1080, 1120>>,
     xerr |-> <<>>, yerr |-> <<5, 5, 5, 5>>]

FitInput(n, xs, ys, ss) == [x |-> xs, y |-> ys, xerr |-> <<>>, yerr |-> ss]

FitInit ==
    /\ \/ arrays = Scenario
       \/ \E n \in 0..MaxPoints :
             \E xs \in [1..n -> XValues], ys \in [1..n -> YValues],
                ss \in [1..n -> SigmaValues] :
                arrays = FitInput(n, xs, ys, ss)
    /\ config \in KValues
    /\ pc = "fit"
    /\ fits = <<>>
    /\ result = <<>>
    /\ script = "fit_only"
    /\ fileState = "ok"
    /\ rows = <<>>
    /\ dirExists = FALSE
    /\ reportFile = <<>>
    /\ plotFile = <<>>
    /\ df = <<>>
    /\ out = <<>>
    /\ fault = "none"
    /\ stages = <<>>
    /\ wrote = {}
    /\ runNo = 1
    /\ prevReport = <<>>

FitFrame ==
    UNCHANGED <<script, fileState, rows, config, dirExists, reportFile, plotFile, df,
                arrays, out, fault, stages, wrote, runNo, prevReport>>

FitCall(sigma) ==
    [sigma |-> sigma, res |-> curve_fit(arrays.x, arrays.y, sigma)]

FitBase ==
    /\ pc = "fit"
    /\ fits' = <<FitCall(arrays.yerr)>>
    /\ pc' = "fit_scaled"
    /\ UNCHANGED result
    /\ FitFrame

FitScaled ==
    /\ pc = "fit_scaled"
    /\ fits' = Append(fits, FitCall([i \in 1..Len(arrays.yerr) |-> config * arrays.yerr[i]]))
    /\ pc' = "derive"
    /\ UNCHANGED result
    /\ FitFrame

DeriveT0 ==
    /\ pc = "derive"
    /\ result' = <<AbsoluteZero(fits[1].res.popt)>>
    /\ pc' = "fit_done"
    /\ UNCHANGED fits
    /\ FitFrame

FitNext == FitBase \/ FitScaled \/ DeriveT0

SpecFit == FitInit /\ [][FitNext]_vars

(***************************************************************************)
(* The scripts.  Program constants, in the fixed-point unit the model      *)
(* uses for them.                                                          *)
(***************************************************************************)
Scripts == {"heating", "specific_heat", "cooling"}

\* v5_gas_thermometer_heating.py
SIGMA_P == 5            \* hPa
SIGMA_T == 1            \* degrees C
lit_value == -27315     \* -273.15 C in 0.01 C

\* v5_specific_heat.py
SIGMA_U == 3            \* V
SIGMA_H == 1            \* 0.5 mm, the unit of the heights of the model
V_ERR == 129            \* 0.000129 m^3 in 1e-6 m^3
C == 20                 \* 20e-6 F in 1e-6 F
RHO_WATER == 1000       \* kg/m^3
G == 981                \* 9.81 m/s^2 in 0.01 m/s^2
VOLUME_VAL == 3200      \* 3.2e-3 m^3 in 1e-6 m^3
KAPPA_LIT == 14000      \* 1.40 in 1e-4

\* v7_cooling.py
R_GAS == 8314           \* 8.31446 J/(mol K) in 1e-3, truncated
LIT_VAL_100C == 4066    \* 40.66 kJ/mol in 0.01 kJ/mol
A == 39083              \* 3.9083e-3 in 1e-7
B == -5775              \* -5.775e-7 in 1e-10
R0 == 1000              \* Ohm
T_OFFSET == 27315       \* 273.15 K in 0.01 K
TOL_READOUT == 3850     \* 1.0/3.85 K: the 3.85 in 1e-3
TOL_CLASS == 300        \* 0.3 K in 1e-3 K
TOL_SLOPE == 5          \* 0.005 in 1e-3
REL_SIGMA_P == 100      \* sigma_p = 0.01 * p_bar: p_bar (bar) -> sigma_p in 1e-4 bar

(***************************************************************************)
(* The x-uncertainty constant of each script, as written in the source,    *)
(* and the value a second run uses after the constant was edited.          *)
(***************************************************************************)
SigmaXDefault(sc) ==
    CASE sc = "heating" -> SIGMA_T
      [] sc = "specific_heat" -> SIGMA_U
      [] sc = "cooling" -> TOL_CLASS

SigmaXChoices(sc) == {SigmaXDefault(sc), 2 * SigmaXDefault(sc)}

(***************************************************************************)
(* Input files.  A row is the pair of the two named columns:               *)
(*   heating        <<Temperatur (C), Druck (hPa)>>                        *)
(*   specific_heat  <<Spannung (V), Delta_H in 0.5 mm>>                    *)
(*   cooling        <<Druck (Bar), Ohmzahl (Ohm)>>                         *)
(***************************************************************************)
FileStates == {"missing", "empty", "no_column", "bad_cell", "ok"}

RowValues(sc) ==
    CASE sc = "heating" ->
            {<<0, 1000>>, <<10, 1040>>, <<20, 1080>>, <<20, 1090>>, <<10, 1000>>}
      [] sc = "specific_heat" ->
            {<<100, 3>>, <<200, 10>>, <<300, 23>>, <<200, 12>>, <<300, 3>>}
      [] sc = "cooling" ->
            {<<1, 1385>>, <<2, 1460>>, <<5, 1580>>, <<8, 1648>>, <<4, 1580>>}

Datasets(sc) == UNION {[1..n -> RowValues(sc)] : n \in 0..MaxRows}

Columns(sc) ==
    CASE sc = "heating" -> {"Temperatur (C)", "Druck (hPa)"}
      [] sc = "specific_heat" -> {"Spannung (V)", "Delta_H (mm)"}
      [] sc = "cooling" -> {"Druck (Bar)", "Ohmzahl (Ohm)"}

\* the header of a file whose second named column is absent
HeaderWithout(sc) ==
    CASE sc = "heating" -> {"Temperatur (C)", "Druck"}
      [] sc = "specific_heat" -> {"Spannung (V)", "Hoehe"}
      [] sc = "cooling" -> {"Druck (Bar)", "Widerstand"}

(***************************************************************************)
(* load_lab_data: pd.read_csv inside try / except FileNotFoundError.       *)
(* A missing file is caught: the error is printed and None returned.       *)
(* pandas raises EmptyDataError for a file with no header, and nothing     *)
(* catches it.  Otherwise the frame is returned: its column names, whether *)
(* every cell parsed as a number, and its rows.                            *)
(***************************************************************************)
\* load_lab_data without the except clause
load_lab_data_uncaught(sc, state, content) ==
    CASE state = "missing" ->
            [raised |-> "FileNotFoundError", printed |-> <<>>, df |-> <<>>]
      [] state = "empty" ->
            [raised |-> "EmptyDataError", printed |-> <<>>, df |-> <<>>]
      [] OTHER ->
            [raised |-> "none", printed |-> <<"Successfully loaded">>,
             df |-> <<[columns |-> IF state = "no_column" THEN HeaderWithout(sc)
                                   ELSE Columns(sc),
                       numeric |-> state # "bad_cell",
                       rows |-> content]>>]

load_lab_data(sc, state, content) ==
    CASE state = "missing" ->
            [raised |-> "none", printed |-> <<"Error loading file">>, df |-> <<>>]
      [] state = "empty" ->
            [raised |-> "EmptyDataError", printed |-> <<>>, df |-> <<>>]
      [] OTHER ->
            [raised |-> "none", printed |-> <<"Successfully loaded">>,
             df |-> <<[columns |-> IF state = "no_column" THEN HeaderWithout(sc)
                                   ELSE Columns(sc),
                       numeric |-> state # "bad_cell",
                       rows |-> content]>>]

(***************************************************************************)
(* Column extraction and conversions ("convert").                          *)
(***************************************************************************)
NoArrays == [x |-> <<>>, y |-> <<>>, xerr |-> <<>>, yerr |-> <<>>]

\* heating: T_celsius and p_hPa are the columns as read; the fit is given
\* sigma = [SIGMA_P] * len(p_hPa); sigma_x is the xerr of the error bars.
HeatingArrays(data, sigma_x) ==
    LET n == Len(data)
    IN  [x |-> [i \in 1..n |-> data[i][1]],
         y |-> [i \in 1..n |-> data[i][2]],
         xerr |-> [i \in 1..n |-> sigma_x],
         yerr |-> [i \in 1..n |-> SIGMA_P]]

\* specific heat.  Units: Delta_Q in 0.1 J, sigma_Q in 1e-3 J, Delta_p and
\* sigma_p in 0.005 Pa (G in 0.01 m/s^2 times heights in 0.5 mm).
\*   Delta_Q = 0.5 * C * U_volt**2        sigma_Q = C * U_volt * SIGMA_U
\*   Delta_p = RHO_WATER * G * (Delta_H_mm / 1000.0)
\*   sigma_p = RHO_WATER * G * (SIGMA_H / 1000.0), the same for every point
SpecificHeatArrays(data, sigma_x) ==
    LET n == Len(data)
    IN  [x |-> [i \in 1..n |-> (C * data[i][1] * data[i][1]) \div 200000],
         y |-> [i \in 1..n |-> (RHO_WATER * G * data[i][2]) \div 1000],
         xerr |-> [i \in 1..n |-> (C * data[i][1] * sigma_x) \div 1000],
         yerr |-> [i \in 1..n |-> (RHO_WATER * G * SIGMA_H) \div 1000]]

\* cooling: the Pt1000 characteristic solved for the temperature,
\*   discriminant = A**2 - 4 * B * (1 - R_ohm / R0)        (here in 1e-14)
\*   T_celsius = (-A + sqrt(discriminant)) / (2 * B)       (here in C)
resistance_to_temperature(R_ohm) ==
    LET discriminant == A * A - 4 * B * (10000 \div R0) * (R0 - R_ohm)
    IN  ((A - ISqrt(discriminant)) * 1000) \div (-(2 * B))

\* np.log on the pressures of the model, 1..8 bar, in 0.01
log(p) == <<0, 69, 109, 138, 160, 179, 194, 207>>[p]

\* Units: T_kelvin in 0.01 K, sigma_T in 1e-3 K, sigma_p in 1e-4 bar,
\* x_val in 1e-4 1/K, y_val and y_err in 0.01, x_err in 1e-7 1/K.
\*   sigma_T = sqrt((1.0/3.85)**2 + (0.3 + 0.005 * T_celsius)**2)
\*   sigma_p = 0.01 * p_bar
\*   x_val = 1.0 / T_kelvin          y_val = log(p_bar)
\*   x_err = sigma_T / T_kelvin**2   y_err = sigma_p / p_bar
CoolingArrays(data, tol_class) ==
    LET n == Len(data)
        p_bar == [i \in 1..n |-> data[i][1]]
        T_celsius == [i \in 1..n |-> resistance_to_temperature(data[i][2])]
        T_kelvin == [i \in 1..n |-> 100 * T_celsius[i] + T_OFFSET]
        sigma_T == [i \in 1..n |->
                      ISqrt((1000000 \div TOL_READOUT) * (1000000 \div TOL_READOUT)
                            + (tol_class + TOL_SLOPE * T_celsius[i])
                              * (tol_class + TOL_SLOPE * T_celsius[i]))]
        sigma_p == [i \in 1..n |-> REL_SIGMA_P * p_bar[i]]
    IN  [x |-> [i \in 1..n |-> 1000000 \div T_kelvin[i]],
         y |-> [i \in 1..n |-> log(p_bar[i])],
         xerr |-> [i \in 1..n |->
                     (sigma_T[i] * 1000000)
                         \div ((T_kelvin[i] \div 10) * (T_kelvin[i] \div 10))],
         yerr |-> [i \in 1..n |-> sigma_p[i] \div (100 * p_bar[i])]]

Conversions(sc, data, sigma_x) ==
    CASE sc = "heating" -> HeatingArrays(data, sigma_x)
      [] sc = "specific_heat" -> SpecificHeatArrays(data, sigma_x)
      [] sc = "cooling" -> CoolingArrays(data, sigma_x)

(***************************************************************************)
(* The sigma argument of the first curve_fit call of each script: the      *)
(* y uncertainties alone.                                                  *)
(***************************************************************************)
\* a first call whose sigma includes the x uncertainties
FitSigma_with_x(sc, arr) == [i \in 1..Len(arr.yerr) |-> arr.yerr[i] + arr.xerr[i]]

FitSigma(sc, arr) == arr.yerr

(***************************************************************************)
(* cooling, pass 2: sigma_eff = sqrt(y_err**2 + (m_init * x_err)**2), in   *)
(* 0.01.  m_init is in 100 K (0.01 per 1e-4 1/K), x_err in 1e-7 1/K: the   *)
(* product is brought from 1e-5 to 0.01.                                   *)
(***************************************************************************)
\* an effective sigma that leaves the x term out
sigma_eff_y_only(m_init, arr) == arr.yerr

sigma_eff(m_init, arr) ==
    [i \in 1..Len(arr.yerr) |->
        LET mx == (Abs(m_init[1]) * arr.xerr[i]) \div (m_init[2] * 1000)
        IN  ISqrt(arr.yerr[i] * arr.yerr[i] + mx * mx)]

\* the slopes a pass 1 on a degenerate dataset may have stopped at (any
\* value: two representatives, in 100 K)
StopPoints == {IntR(0), IntR(-50)}

(***************************************************************************)
(* "propagate": the derived quantity of each script with its standard      *)
(* deviation and the deviation from the literature value in sigma.         *)
(* value is exact where it is rational; n, s are the nominal value and the *)
(* standard deviation in fixed point, dev = abs(n - literature) / s in 0.1.*)
(***************************************************************************)
PhysicsRaised(e) ==
    [status |-> e, value |-> Unidentified, n |-> 0, s |-> 0, dev |-> 0, extra |-> <<>>]

\* heating: T0 = -intercept / slope, n in 0.01 C.  The uncertainties package
\* propagates pcov linearly through T0 (gradient <<-T0/slope, -1/slope>>):
\*   T0.s = sqrt(T0^2 var(m) + 2 T0 cov(m,b) + var(b)) / abs(slope),   s in 0.1 C
\*   sigma_deviation = abs(T0.n - lit_value) / T0.s
HeatingPhysics(popt, pcov) ==
    LET T0 == AbsoluteZero(popt)
        n == Fix(T0.n, 2)
        t == Fix(T0.n, 1)
        sign == IF (t < 0) = (pcov[2][1] < 0) THEN 1 ELSE -1
        quad == MulDiv(t * t, pcov[1][1], pcov[1][2])
                + sign * 20 * MulDiv(Abs(t), Abs(pcov[2][1]), pcov[2][2])
                + Fix(pcov[3], 2)
        s == MulDiv(ISqrt(quad), popt[1][2], Abs(popt[1][1]))
    IN  IF T0.status # "ok" THEN PhysicsRaised(T0.status)
        ELSE [status |-> "ok", value |-> T0.n, n |-> n, s |-> s,
              dev |-> Abs(n - lit_value) \div s, extra |-> <<>>]

\* specific heat: kappa = slope * VOLUME + 1 with VOLUME = ufloat(VOLUME_VAL, V_ERR),
\* so kappa.s**2 = VOLUME_VAL**2 * var(slope) + slope**2 * V_ERR**2; the slope is in
\* 0.05 Pa/J, kappa in 1e-4: kappa - 1 = slope * VOLUME_VAL / 2000.
\*   sigma_dev_k = abs(kappa.n - 1.40) / kappa.s
\*   f_measured = 2.0 / (kappa - 1): division by zero when the slope is 0;
\*   f.s = 2 * kappa.s / (kappa - 1)**2; f in 1e-3 (extra = <<f.n, f.s>>)
SpecificHeatPhysics(popt, pcov) ==
    LET slope == popt[1]
        kappa_n == 10000 + Fix(RMul(slope, Rat(VOLUME_VAL, 2000)), 0)
        rel == (Fix(RAbs(slope), 0) * V_ERR) \div VOLUME_VAL
        kappa_s == (ISqrt(Fix(pcov[1], 0) + rel * rel) * VOLUME_VAL) \div 2000
        f_n == 20000000 \div (kappa_n - 10000)
        f_s == MulDiv(Abs(f_n), kappa_s, Abs(kappa_n - 10000))
    IN  IF slope = IntR(0) THEN PhysicsRaised("ZeroDivisionError")
        ELSE [status |-> "ok", value |-> Unidentified, n |-> kappa_n, s |-> kappa_s,
              dev |-> (Abs(kappa_n - KAPPA_LIT) * 10) \div kappa_s,
              extra |-> <<f_n, f_s>>]

\* cooling: Delta_H = -slope * R_GAS, Delta_H_kJ = Delta_H / 1000.0; the slope is
\* in 100 K, brought to K first; n and s in 0.01 kJ/mol
\*   sigma_dev = abs(Delta_H_kJ.n - LIT_VAL_100C) / Delta_H_kJ.s
CoolingPhysics(popt, pcov) ==
    LET slope_K == Fix(popt[1], 2)
        sigma_K == ISqrt(Fix(pcov[1], 4))
        n == ((-slope_K) * R_GAS) \div 10000
        s == (sigma_K * R_GAS) \div 10000
    IN  [status |-> "ok", value |-> Unidentified, n |-> n, s |-> s,
         dev |-> (Abs(n - LIT_VAL_100C) * 10) \div s, extra |-> <<>>]

Physics(sc, popt, pcov) ==
    CASE sc = "heating" -> HeatingPhysics(popt, pcov)
      [] sc = "specific_heat" -> SpecificHeatPhysics(popt, pcov)
      [] sc = "cooling" -> CoolingPhysics(popt, pcov)

\* what nan arithmetic leaves of the results after a degenerate fit
NanPhysics ==
    [status |-> "nan", value |-> Unidentified, n |-> 0, s |-> 0, dev |-> 0,
     extra |-> <<>>]

(***************************************************************************)
(* The text report (results_text) and the figure.  The report's Date line  *)
(* is left out; numbers are the values, not their rounded print.           *)
(***************************************************************************)
results_text(sc, calls, res) ==
    [analysis |-> sc,
     slope |-> <<res.popt[1], res.pcov[1]>>,
     intercept |-> <<res.popt[2], res.pcov[3]>>,
     physics |-> res.physics]

Figure(arr, res) ==
    [x |-> arr.x, y |-> arr.y, xerr |-> arr.xerr, yerr |-> arr.yerr,
     line |-> res.popt, label |-> <<res.physics.n, res.physics.s>>]

(***************************************************************************)
(* A script run.                                                           *)
(***************************************************************************)
Init ==
    /\ script \in Scripts
    /\ fileState \in FileStates
    /\ rows \in (IF fileState = "ok" THEN Datasets(script) ELSE {<<>>})
    /\ config = SigmaXDefault(script)
    /\ dirExists \in BOOLEAN
    /\ reportFile = <<>>
    /\ plotFile = <<>>
    /\ pc = "mkdir"
    /\ df = <<>>
    /\ arrays = NoArrays
    /\ fits = <<>>
    /\ result = <<>>
    /\ out = <<>>
    /\ fault = "none"
    /\ stages = <<>>
    /\ wrote = {}
    /\ runNo = 1
    /\ prevReport = <<>>

Inputs == <<script, fileState, rows, config, runNo, prevReport>>

\* an unhandled exception ends the run with a traceback
Crash(e) ==
    /\ fault' = e
    /\ pc' = "crashed"

\* a script that never creates OUTPUT_DIR
MakeOutputDir_skipped ==
    /\ pc = "mkdir"
    /\ pc' = "load"
    /\ UNCHANGED <<dirExists, out>>
    /\ UNCHANGED <<reportFile, plotFile, df, arrays, fits, result, fault, stages, wrote>>
    /\ UNCHANGED Inputs

\* if not os.path.exists(OUTPUT_DIR): os.makedirs(OUTPUT_DIR); print(...)
MakeOutputDir ==
    /\ pc = "mkdir"
    /\ dirExists' = TRUE
    /\ out' = IF dirExists THEN out ELSE Append(out, "Created directory")
    /\ pc' = "load"
    /\ UNCHANGED <<reportFile, plotFile, df, arrays, fits, result, fault, stages, wrote>>
    /\ UNCHANGED Inputs

\* df = load_lab_data(FILENAME); if df is not None: ... (else the script ends)
LoadData ==
    /\ pc = "load"
    /\ stages' = Append(stages, "load")
    /\ LET r == load_lab_data(script, fileState, rows)
       IN  /\ out' = out \o r.printed
           /\ df' = r.df
           /\ IF r.raised # "none" THEN Crash(r.raised)
              ELSE /\ pc' = IF r.df = <<>> THEN "done" ELSE "convert"
                   /\ UNCHANGED fault
    /\ UNCHANGED <<dirExists, reportFile, plotFile, arrays, fits, result, wrote>>
    /\ UNCHANGED Inputs

\* df["..."].to_numpy() for the two columns (KeyError when one is absent), then
\* the conversions; arithmetic on a column of strings raises TypeError (the
\* heating script does none: its strings reach curve_fit)
Convert ==
    /\ pc = "convert"
    /\ stages' = Append(stages, "convert")
    /\ IF ~(Columns(script) \subseteq df[1].columns)
       THEN Crash("KeyError") /\ UNCHANGED arrays
       ELSE IF ~df[1].numeric /\ script # "heating"
       THEN Crash("TypeError") /\ UNCHANGED arrays
       ELSE /\ arrays' = IF df[1].numeric
                         THEN Conversions(script, df[1].rows, config)
                         ELSE NoArrays
            /\ pc' = "fit"
            /\ UNCHANGED fault
    /\ UNCHANGED <<dirExists, reportFile, plotFile, df, fits, result, out, wrote>>
    /\ UNCHANGED Inputs

\* popt, pcov = curve_fit(linear_model, x, y, sigma=..., absolute_sigma=True)
\* (cooling: pass 1, popt_init).  curve_fit raises ValueError on strings and on
\* empty data and TypeError on a single point; a singular fit returns with a
\* warning on the diagnostic output.
Fit ==
    /\ pc = "fit"
    /\ stages' = Append(stages, "fit")
    /\ IF ~df[1].numeric
       THEN Crash("ValueError") /\ UNCHANGED <<fits, out>>
       ELSE LET sigma == FitSigma(script, arrays)
                res == curve_fit(arrays.x, arrays.y, sigma)
            IN  IF res.status \in {"ValueError", "TypeError"}
                THEN Crash(res.status) /\ UNCHANGED <<fits, out>>
                ELSE /\ fits' = Append(fits, [sigma |-> sigma, m_init |-> Unidentified,
                                              res |-> res])
                     /\ out' = IF res.status = "ok" THEN out
                               ELSE Append(out, "OptimizeWarning")
                     /\ pc' = IF script = "cooling" THEN "fit2" ELSE "propagate"
                     /\ UNCHANGED fault
    /\ UNCHANGED <<dirExists, reportFile, plotFile, df, arrays, result, wrote>>
    /\ UNCHANGED Inputs

\* cooling, pass 2: m_init = popt_init[0]; sigma_eff = ...; popt, pcov = curve_fit(...)
FitEffectiveVariance ==
    /\ pc = "fit2"
    /\ \E stop \in StopPoints :
          LET first == fits[1].res.popt[1]
              m_init == IF IsFinite(first) THEN first ELSE stop
              sigma == sigma_eff(m_init, arrays)
              res == curve_fit(arrays.x, arrays.y, sigma)
          IN  /\ fits' = Append(fits, [sigma |-> sigma, m_init |-> m_init, res |-> res])
              /\ out' = IF res.status = "ok" THEN out
                        ELSE Append(out, "OptimizeWarning")
    /\ pc' = "propagate"
    /\ UNCHANGED <<dirExists, reportFile, plotFile, df, arrays, result, fault, stages,
                   wrote>>
    /\ UNCHANGED Inputs

\* the popt, pcov the rest of the script uses: those of the last call
FinalFit(calls) == calls[Len(calls)].res

\* slope, intercept = correlated_values(popt, pcov), the derived quantity and the
\* deviation.  With the all-inf pcov of a singular fit correlated_values either
\* raises (LinAlgError from the eigen-decomposition of a nan matrix) or returns
\* nan values, depending on the numerical library: both outcomes are possible.
Propagate ==
    /\ pc = "propagate"
    /\ stages' = Append(stages, "propagate")
    /\ LET fit == FinalFit(fits)
       IN  IF fit.status # "ok"
           THEN \/ Crash("LinAlgError") /\ UNCHANGED result
                \/ /\ result' = <<[popt |-> fit.popt, pcov |-> fit.pcov,
                                   physics |-> NanPhysics]>>
                   /\ pc' = "report"
                   /\ UNCHANGED fault
           ELSE LET ph == Physics(script, fit.popt, fit.pcov)
                IN  IF ph.status # "ok"
                    THEN Crash(ph.status) /\ UNCHANGED result
                    ELSE /\ result' = <<[popt |-> fit.popt, pcov |-> fit.pcov,
                                         physics |-> ph]>>
                         /\ pc' = "report"
                         /\ UNCHANGED fault
    /\ UNCHANGED <<dirExists, reportFile, plotFile, df, arrays, fits, out, wrote>>
    /\ UNCHANGED Inputs

\* a report that is printed but not written to the file
Report_not_written ==
    /\ pc = "report"
    /\ stages' = Append(stages, "report")
    /\ out' = Append(out, "results_text")
    /\ pc' = "plot"
    /\ UNCHANGED <<dirExists, reportFile, plotFile, df, arrays, fits, result, fault, wrote>>
    /\ UNCHANGED Inputs

\* print(results_text); with open(txt_path, "w") as f: f.write(results_text)
Report ==
    /\ pc = "report"
    /\ stages' = Append(stages, "report")
    /\ reportFile' = <<results_text(script, fits, result[1])>>
    /\ wrote' = wrote \cup {"report"}
    /\ out' = out \o <<"results_text", "Results saved">>
    /\ pc' = "plot"
    /\ UNCHANGED <<dirExists, plotFile, df, arrays, fits, result, fault>>
    /\ UNCHANGED Inputs

\* the figure is rendered and saved with plt.savefig(plot_path, ...)
Plot ==
    /\ pc = "plot"
    /\ stages' = Append(stages, "plot")
    /\ plotFile' = <<Figure(arrays, result[1])>>
    /\ wrote' = wrote \cup {"plot"}
    /\ out' = Append(out, "Plot saved")
    /\ pc' = "done"
    /\ UNCHANGED <<dirExists, reportFile, df, arrays, fits, result, fault>>
    /\ UNCHANGED Inputs

\* rendering fails in matplotlib (no usable backend, no memory) before savefig
PlotFails ==
    /\ pc = "plot"
    /\ stages' = Append(stages, "plot")
    /\ Crash("RenderError")
    /\ UNCHANGED <<dirExists, reportFile, plotFile, df, arrays, fits, result, out,
                   wrote>>
    /\ UNCHANGED Inputs

\* the x-uncertainty constant is edited and the script run again on the same
\* dataset; the files of the previous run stay where they are
EditSigmaXAndRerun ==
    /\ pc \in {"done", "crashed"}
    /\ runNo < MaxRuns
    /\ config' \in SigmaXChoices(script) \ {config}
    /\ prevReport' = reportFile
    /\ runNo' = runNo + 1
    /\ pc' = "mkdir"
    /\ df' = <<>>
    /\ arrays' = NoArrays
    /\ fits' = <<>>
    /\ result' = <<>>
    /\ out' = <<>>
    /\ fault' = "none"
    /\ stages' = <<>>
    /\ wrote' = {}
    /\ UNCHANGED <<script, fileState, rows, dirExists, reportFile, plotFile>>

Next ==
    \/ MakeOutputDir
    \/ LoadData
    \/ Convert
    \/ Fit
    \/ FitEffectiveVariance
    \/ Propagate
    \/ Report
    \/ Plot
    \/ PlotFails
    \/ EditSigmaXAndRerun

Spec == Init /\ [][Next]_vars

(***************************************************************************)
(* Properties.                                                             *)
(***************************************************************************)
Pipeline == <<"load", "convert", "fit", "propagate", "report", "plot">>

IsPrefix(a, b) == Len(a) <= Len(b) /\ \A i \in 1..Len(a) : a[i] = b[i]

Printed(msg) == \E i \in 1..Len(out) : out[i] = msg

Finished == pc \in {"done", "crashed"}

\* the index of the column that becomes the x of the fit
XColumn == IF script = "cooling" THEN 2 ELSE 1

DistinctRawX == Cardinality({rows[i][XColumn] : i \in 1..Len(rows)})

DistinctX == Cardinality({arrays.x[i] : i \in 1..Len(arrays.x)})

FitStageLeft == pc \in {"fit2", "propagate", "report", "plot", "done"}
                \/ (pc = "crashed" /\ Len(stages) >= 3)

\* C1: when the input file does not exist, the load failure is reported, the
\* run ends without an exception, no conversion, fit or propagation step runs,
\* and neither the report nor the plot is written.
C1_MissingFileAborts ==
    (fileState = "missing" /\ pc \notin {"mkdir", "load"}) =>
        /\ pc = "done"
        /\ fault = "none"
        /\ Printed("Error loading file")
        /\ stages = <<"load">>
        /\ df = <<>>
        /\ arrays = NoArrays
        /\ fits = <<>>
        /\ result = <<>>
        /\ wrote = {}
        /\ reportFile = <<>>
        /\ plotFile = <<>>

C1_Witness ==
    /\ fileState = "missing"
    /\ pc = "done"
    /\ Printed("Error loading file")
    /\ runNo = MaxRuns

\* C2: when the input file is present but malformed (a named column absent or
\* a cell not numeric), the run ends without an unhandled exception: the
\* failure is reported and neither the report nor the plot is written.
C2_MalformedAbortsCleanly ==
    (fileState \in {"no_column", "bad_cell"} /\ Finished) =>
        /\ fault = "none"
        /\ Printed("Error loading file")
        /\ wrote = {}

\* the exceptions by which a fit refuses a dataset: the one the design names,
\* and the two curve_fit raises for empty data and for a single point
FitErrors == {"SingularFitError", "ValueError", "TypeError"}

\* C3: a dataset with fewer than 2 distinct x values makes the fit end in a
\* distinguishable error (SingularFitError); the run never goes on to
\* propagation, report or plot with the slope, intercept or covariance of such
\* a dataset.
C3_DegenerateFitRaises ==
    (fileState = "ok" /\ DistinctRawX < 2 /\ FitStageLeft) =>
        /\ pc = "crashed"
        /\ fault \in FitErrors
        /\ fits = <<>>
        /\ result = <<>>
        /\ wrote = {}

\* the points of the dataset lie on one line
Collinear ==
    \A i, j, k \in 1..Len(arrays.x) :
        (arrays.y[j] - arrays.y[i]) * (arrays.x[k] - arrays.x[i])
            = (arrays.y[k] - arrays.y[i]) * (arrays.x[j] - arrays.x[i])

\* every point of the dataset is exactly on y = popt[1] * x + popt[2]
OnLine(popt) ==
    \A i \in 1..Len(arrays.x) :
        RAdd(RMul(popt[1], IntR(arrays.x[i])), popt[2]) = IntR(arrays.y[i])

Noiseless(m, b) ==
    \A i \in 1..Len(arrays.y) : arrays.y[i] = linear_model(arrays.x[i], m, b)

\* C4 as stated: for noiseless data y = m x + b with two distinct x and positive
\* sigma_y the fit returns exactly (m, b) and standard deviation 0 for both.
C4_NoiselessZeroSigma ==
    (script = "fit_only" /\ pc # "fit" /\ DistinctX >= 2 /\ Collinear) =>
        /\ fits[1].res.status = "ok"
        /\ OnLine(fits[1].res.popt)
        /\ fits[1].res.pcov[1] = IntR(0)
        /\ fits[1].res.pcov[3] = IntR(0)

\* C4 amended: for noiseless data y = m x + b with two distinct x and positive
\* sigma_y the fit returns exactly (m, b); the variances of slope and intercept
\* are not 0 but strictly positive: under absolute_sigma=True they are fixed by
\* x and sigma_y alone, the same as for the data y = 0 on those x.
C4_NoiselessExactPositiveSigma ==
    (script = "fit_only" /\ pc # "fit" /\ DistinctX >= 2 /\ Collinear) =>
        /\ fits[1].res.status = "ok"
        /\ OnLine(fits[1].res.popt)
        /\ \A m \in -2..4, b \in {-4, 0, 2, 1000} :
              Noiseless(m, b) => fits[1].res.popt = <<IntR(m), IntR(b)>>
        /\ RLess(IntR(0), fits[1].res.pcov[1])
        /\ RLess(IntR(0), fits[1].res.pcov[3])
        /\ fits[1].res.pcov =
               curve_fit(arrays.x, [i \in 1..Len(arrays.x) |-> 0], arrays.yerr).pcov

C4_Witness ==
    /\ script = "fit_only"
    /\ pc = "fit_done"
    /\ Len(arrays.x) = 3
    /\ DistinctX = 3
    /\ Noiseless(-1, 2)
    /\ arrays.yerr = <<1, 2, 1>>
    /\ RLess(IntR(0), fits[1].res.pcov[1])

\* C5: with two distinct x, multiplying every sigma_y by k > 0 leaves (m, b)
\* unchanged and multiplies every entry of the covariance matrix by k^2 (the
\* standard deviations by k).
C5_ScaleInvariance ==
    (script = "fit_only" /\ pc \in {"derive", "fit_done"} /\ DistinctX >= 2) =>
        /\ fits[1].res.status = "ok"
        /\ fits[2].res.status = "ok"
        /\ fits[2].sigma = [i \in 1..Len(arrays.yerr) |-> config * arrays.yerr[i]]
        /\ fits[2].res.popt = fits[1].res.popt
        /\ \A j \in 1..3 :
              fits[2].res.pcov[j] = RMul(IntR(config * config), fits[1].res.pcov[j])

C5_Witness ==
    /\ script = "fit_only"
    /\ pc = "fit_done"
    /\ DistinctX = 3
    /\ arrays.yerr = <<2, 1, 2>>
    /\ ~Noiseless(1, 0)
    /\ config = 3
    /\ fits[2].res.pcov[1] = RMul(IntR(9), fits[1].res.pcov[1])
    /\ fits[2].res.pcov[1] # fits[1].res.pcov[1]

\* C6: for x = [0, 10, 20, 30], y = [1000, 1040, 1080, 1120], sigma_y = 5 the
\* fit returns m = 4 and b = 1000, and T0 = -b/m as the gas-thermometer script
\* computes it is -250.
C6_EndToEndScenario ==
    (script = "fit_only" /\ arrays = Scenario /\ pc = "fit_done") =>
        /\ fits[1].res.status = "ok"
        /\ fits[1].res.popt = <<IntR(4), IntR(1000)>>
        /\ result[1].status = "ok"
        /\ result[1].n = IntR(-250)

C6_Witness ==
    /\ script = "fit_only"
    /\ arrays = Scenario
    /\ arrays.yerr = <<SIGMA_P, SIGMA_P, SIGMA_P, SIGMA_P>>
    /\ pc = "fit_done"
    /\ result[1].n = IntR(-250)

SuccessfulRun == pc = "done" /\ df # <<>>

\* the x contribution of pass 2 for point i, (m_init * x_err) in 0.01
XTerm(call, i) == (Abs(call.m_init[1]) * arrays.xerr[i]) \div (call.m_init[2] * 1000)

\* C7: the cooling script fits exactly twice in every successful run and never
\* more: pass 1 with sigma_y alone gives m0; pass 2 uses
\* sigma_eff_i = sqrt(sigma_y_i^2 + (m0 sigma_x_i)^2); slope, intercept and
\* covariance reported are those of pass 2; the pass-2 slope is not fed back.
C7_TwoPassEffectiveVariance ==
    script = "cooling" =>
        /\ Len(fits) <= 2
        /\ (SuccessfulRun \/ result # <<>> \/ pc \in {"propagate", "report", "plot"})
               => Len(fits) = 2
        /\ Len(fits) >= 1 => fits[1].sigma = arrays.yerr
        /\ Len(fits) = 2 =>
              /\ IsFinite(fits[1].res.popt[1]) => fits[2].m_init = fits[1].res.popt[1]
              /\ \A i \in 1..Len(arrays.x) :
                    LET e == fits[2].sigma[i]
                        v == arrays.yerr[i] * arrays.yerr[i]
                             + XTerm(fits[2], i) * XTerm(fits[2], i)
                    IN  e * e <= v /\ v < (e + 1) * (e + 1)
        /\ result # <<>> =>
              /\ result[1].popt = fits[2].res.popt
              /\ result[1].pcov = fits[2].res.pcov
        /\ "report" \in wrote =>
              /\ reportFile[1].slope = <<fits[2].res.popt[1], fits[2].res.pcov[1]>>
              /\ reportFile[1].intercept = <<fits[2].res.popt[2], fits[2].res.pcov[3]>>

C7_Witness ==
    /\ script = "cooling"
    /\ SuccessfulRun
    /\ Len(fits) = 2
    /\ fits[2].sigma # fits[1].sigma
    /\ fits[2].res.popt # fits[1].res.popt
    /\ fits[2].res.pcov # fits[1].res.pcov
    /\ reportFile[1].slope = <<fits[2].res.popt[1], fits[2].res.pcov[1]>>
    /\ wrote = {"report", "plot"}

\* C8: a run that loads its dataset goes through load, convert, fit, propagate,
\* report, plot in this order, each stage after the previous one completed and
\* none repeated; the report is written before the plot is saved, so a run
\* that fails while plotting ends with the report written and no plot.
C8_LinearPipeline ==
    /\ IsPrefix(stages, Pipeline)
    /\ arrays # NoArrays => df # <<>>
    /\ fits # <<>> => (df # <<>> /\ Len(stages) >= 3)
    /\ result # <<>> => (fits # <<>> /\ Len(stages) >= 4)
    /\ "report" \in wrote => (result # <<>> /\ Len(stages) >= 5 /\ reportFile # <<>>)
    /\ "plot" \in wrote => ("report" \in wrote /\ stages = Pipeline /\ plotFile # <<>>)
    /\ (pc = "crashed" /\ stages = Pipeline) =>
           ("report" \in wrote /\ reportFile # <<>> /\ "plot" \notin wrote)
    /\ SuccessfulRun => (stages = Pipeline /\ wrote = {"report", "plot"})

C8_Witness ==
    /\ pc = "crashed"
    /\ fault = "RenderError"
    /\ stages = Pipeline
    /\ wrote = {"report"}
    /\ reportFile # <<>>
    /\ plotFile = <<>>

\* C9: sigma_x influences the fit only in the cooling script: two runs of the
\* heating or of the specific-heat script on the same dataset that differ only
\* in sigma_x report the same slope, intercept, covariance, derived quantity
\* and deviation; in the cooling script sigma_x enters the pass-2 weights.
C9_SigmaXOnlyInCooling ==
    /\ (script \in {"heating", "specific_heat"} /\ runNo >= 2
            /\ "report" \in wrote /\ prevReport # <<>>)
           => reportFile = prevReport
    /\ (script \in {"heating", "specific_heat"} /\ fits # <<>>)
           => (Len(fits) = 1 /\ fits[1].sigma = arrays.yerr)
    /\ (script = "cooling" /\ Len(fits) = 2) =>
           \A i \in 1..Len(arrays.x) :
               XTerm(fits[2], i) >= 1 => fits[2].sigma[i] > arrays.yerr[i]

C9_Witness ==
    /\ script = "heating"
    /\ runNo = 2
    /\ config # SIGMA_T
    /\ SuccessfulRun
    /\ prevReport # <<>>
    /\ reportFile = prevReport
    /\ reportFile[1].physics.status = "ok"
    /\ plotFile[1].xerr # <<SIGMA_T, SIGMA_T, SIGMA_T>>
    /\ Len(arrays.x) = 3

\* two cooling runs that differ only in sigma_x do report different results
C9_CoolingDiffers ==
    /\ script = "cooling"
    /\ runNo = 2
    /\ "report" \in wrote
    /\ prevReport # <<>>
    /\ reportFile # prevReport

\* C10: the output directory is created (if absent) before the dataset is
\* loaded, so it exists after every run, also after a run that stops because
\* the input file is missing: that run leaves the report and the plot
\* untouched, not the directory.
C10_OutputDirCreatedFirst ==
    /\ pc # "mkdir" => dirExists
    /\ stages # <<>> => dirExists
    /\ Finished => dirExists
    /\ (fileState = "missing" /\ Finished) =>
           (dirExists /\ reportFile = <<>> /\ plotFile = <<>>)

C10_Witness ==
    /\ fileState = "missing"
    /\ pc = "done"
    /\ runNo = 1
    /\ Printed("Created directory")
    /\ dirExists
    /\ reportFile = <<>>
    /\ plotFile = <<>>

====
